---- MODULE Spec2Model ----
(***************************************************************************)
(* Template matching engine of the voice agent                             *)
(* (src/template_matcher.py, class OptimizedTemplateMatcher) and the       *)
(* places of src/app.py that call it.                                      *)
(*                                                                         *)
(* A Python str is a sequence of one-character strings.  A float score is  *)
(* an exact fraction <<numerator, denominator>>.  The value NotAString     *)
(* stands for an argument that is no str (None, a number); Unhashable for  *)
(* an argument that cannot be a set member (a list, a dict); NaN for the   *)
(* value pandas gives an empty CSV cell.  A template's tags are metadata   *)
(* that no operation reads back; they are left out of the template record. *)
(***************************************************************************)
EXTENDS Integers, Sequences, FiniteSets, TLC

VARIABLES
    templates,        \* self.templates: list of template dicts
    template_index,   \* self.template_index: key -> list of templates (by id)
    categories,       \* self.categories: set of labels
    question_cache,   \* self._question_cache: lower-cased query -> answer
    last_reload,      \* self._last_reload: None or the time of the last full reload
    folder,           \* the templates folder on disk: Missing or the listing of its CSV files
    ret,              \* the last call on the matcher: operation, arguments, return value
    rpc,              \* reload_templates running on its own thread: position and locals
    apc,              \* add_template running on worker threads: position and locals of each
    seen,             \* what the last match_template call run in one step computed against
    round,            \* the writer calls overlapping since the writers were last all idle
    app,              \* app.py: processors, conversation_history and the last handler's messages
    mpc               \* a match_template call between its lookup and line 192: its locals

vars == <<templates, template_index, categories, question_cache, last_reload,
          folder, ret, rpc, apc, seen, round, app, mpc>>

---------------------------------------------------------------------------
(* Python values outside str *)

\* Each is a one-element sequence, so that it compares with a str without being one.
None == <<"<None>">>
NaN == <<"<NaN>">>
NotAString == <<"<not a str>">>
Unhashable == <<"<unhashable>">>
True == <<"<True>">>
False == <<"<False>">>

IsStr(v) == v # NotAString

---------------------------------------------------------------------------
(* str methods *)

UpperChars == <<"A","B","C","D","E","F","G","H","I","J","K","L","M",
                "N","O","P","Q","R","S","T","U","V","W","X","Y","Z">>
LowerChars == <<"a","b","c","d","e","f","g","h","i","j","k","l","m",
                "n","o","p","q","r","s","t","u","v","w","x","y","z">>

LowerOf == [c \in {UpperChars[i] : i \in 1..26} |->
               LowerChars[CHOOSE i \in 1..26 : UpperChars[i] = c]]
UpperOf == [c \in {LowerChars[i] : i \in 1..26} |->
               UpperChars[CHOOSE i \in 1..26 : LowerChars[i] = c]]

LowerChar(c) == IF c \in DOMAIN LowerOf THEN LowerOf[c] ELSE c
UpperChar(c) == IF c \in DOMAIN UpperOf THEN UpperOf[c] ELSE c

\* str.lower()
Lower(s) == [i \in 1..Len(s) |-> LowerChar(s[i])]

IsSpace(c) == c = " "

RECURSIVE LStrip(_)
LStrip(s) == IF s # <<>> /\ IsSpace(Head(s)) THEN LStrip(Tail(s)) ELSE s

RECURSIVE RStrip(_)
RStrip(s) ==
    IF s # <<>> /\ IsSpace(s[Len(s)]) THEN RStrip(SubSeq(s, 1, Len(s) - 1)) ELSE s

\* str.strip()
Strip(s) == RStrip(LStrip(s))

\* str.startswith(p), str.endswith(p)
StartsWith(s, p) == Len(p) <= Len(s) /\ SubSeq(s, 1, Len(p)) = p
EndsWith(s, p) == Len(p) <= Len(s) /\ SubSeq(s, Len(s) - Len(p) + 1, Len(s)) = p

\* str.split(): the whitespace-delimited words, in order
RECURSIVE SplitFrom(_, _, _)
SplitFrom(s, word, acc) ==
    IF s = <<>>
    THEN IF word = <<>> THEN acc ELSE Append(acc, word)
    ELSE IF IsSpace(Head(s))
         THEN SplitFrom(Tail(s), <<>>, IF word = <<>> THEN acc ELSE Append(acc, word))
         ELSE SplitFrom(Tail(s), Append(word, Head(s)), acc)

Split(s) == SplitFrom(s, <<>>, <<>>)

Range(f) == {f[i] : i \in DOMAIN f}

\* set(s.split())
WordSet(s) == Range(Split(s))

---------------------------------------------------------------------------
(* Inputs *)

MaxTemplates == 2

Str_WhyB == <<"W","h","y"," ","b","?">>
Str_Why == <<"W","h","y">>
Str_why == <<"w","h","y">>
Str_why_b == <<"w","h","y"," ","b">>
Str_b_why == <<"b","?"," ","w","h","y">>
Str_blank == <<" ">>
Str_x == <<"x">>
Str_y == <<"y">>
Str_General == <<"G","e","n","e","r","a","l">>
Str_Info == <<"I","n","f","o">>

\* add_template's arguments <<question, answer, category, priority>>: the well-formed
\* ones, those with a blank question or answer, and those add_template fails on
AddInputs ==
    ({Str_Why} \X {Str_x, Str_y} \X {Str_General} \X {1, 2})
    \cup ({Str_WhyB} \X {Str_x} \X {Str_General} \X {1, 2})
    \cup {<<Str_blank, Str_x, Str_General, 1>>, <<Str_Why, Str_blank, Str_General, 1>>}
    \cup {<<NotAString, Str_x, Str_General, 1>>, <<Str_Why, Str_x, Unhashable, 1>>}

QueryInputs == {Str_Why, Str_why, Str_why_b, Str_b_why, Str_blank, NotAString}

\* line 173: max_matches: int = 3, the value every caller in src/app.py uses
DefaultMaxMatches == 3

IntCell(n) == [nan |-> FALSE, val |-> n]
NaNCell == [nan |-> TRUE, val |-> 0]

File_info ==
    [name |-> <<"i","n","f","o",".","c","s","v">>,
     parses |-> TRUE,
     columns |-> {"question", "answer", "category", "priority"},
     rows |-> << [question |-> Str_WhyB, answer |-> Str_x, category |-> Str_Info,
                  priority |-> IntCell(2)],
                 [question |-> Str_Why, answer |-> NaN, category |-> Str_Info,
                  priority |-> IntCell(1)],
                 [question |-> Str_Why, answer |-> Str_y, category |-> Str_Info,
                  priority |-> NaNCell] >>]

File_faq ==
    [name |-> <<"f","a","q",".","c","s","v">>,
     parses |-> TRUE,
     columns |-> {"question", "answer"},
     rows |-> << [question |-> Str_Why, answer |-> Str_y] >>]

\* The folder is [exists, csv_files]: csv_files is os.listdir's listing of its CSV files
Folder(files) == [exists |-> TRUE, csv_files |-> files]
NoFolder == [exists |-> FALSE, csv_files |-> <<>>]

FolderInputs == {NoFolder, Folder(<<>>), Folder(<<File_info>>), Folder(<<File_info, File_faq>>)}

\* The office scenario: one more source file, and queries in another word order
Str_JamBerapaBuka == <<"J","a","m"," ","b","e","r","a","p","a"," ","b","u","k","a","?">>
Str_KamiBukaJam9 == <<"K","a","m","i"," ","b","u","k","a"," ","j","a","m"," ","9">>
Str_DimanaLokasiKantor == <<"D","i","m","a","n","a"," ","l","o","k","a","s","i"," ","k","a","n","t","o","r","?">>
Str_JlMerdekaNo1 == <<"J","l","."," ","M","e","r","d","e","k","a"," ","N","o",".","1">>
Str_lokasi_kantor_dimana == <<"l","o","k","a","s","i"," ","k","a","n","t","o","r"," ","d","i","m","a","n","a">>
Str_jam_berapa_buka == <<"j","a","m"," ","b","e","r","a","p","a"," ","b","u","k","a">>
Str_kantor_lokasi == <<"k","a","n","t","o","r","?"," ","l","o","k","a","s","i">>
Str_why_why == <<"w","h","y"," ","w","h","y">>

File_kantor ==
    [name |-> <<"k","a","n","t","o","r",".","c","s","v">>,
     parses |-> TRUE,
     columns |-> {"question", "answer", "category", "priority"},
     rows |-> << [question |-> Str_JamBerapaBuka, answer |-> Str_KamiBukaJam9,
                  category |-> Str_Info, priority |-> IntCell(2)],
                 [question |-> Str_DimanaLokasiKantor, answer |-> Str_JlMerdekaNo1,
                  category |-> Str_Info, priority |-> IntCell(1)] >>]

\* a file that pandas cannot read with any of the four encodings, or not at all
File_bad ==
    [name |-> <<"b","a","d",".","c","s","v">>, parses |-> FALSE, columns |-> {}, rows |-> <<>>]

\* a file without the required column 'answer'
File_nocol ==
    [name |-> <<"n","o","c","o","l",".","c","s","v">>,
     parses |-> TRUE,
     columns |-> {"question", "category"},
     rows |-> << [question |-> Str_Why, category |-> Str_Info] >>]

\* a file that asks the question of faq.csv again
File_dup ==
    [name |-> <<"d","u","p",".","c","s","v">>,
     parses |-> TRUE,
     columns |-> {"question", "answer"},
     rows |-> << [question |-> Str_Why, answer |-> Str_x] >>]

\* a file with a category column whose second row leaves the category cell empty
File_jam_buka ==
    [name |-> <<"j","a","m","_","b","u","k","a",".","c","s","v">>,
     parses |-> TRUE,
     columns |-> {"question", "answer", "category"},
     rows |-> << [question |-> Str_Why, answer |-> Str_y, category |-> Str_Info],
                 [question |-> Str_JamBerapaBuka, answer |-> Str_KamiBukaJam9,
                  category |-> NaN] >>]

ScenarioFolders ==
    {Folder(<<File_kantor>>), Folder(<<File_faq>>),
     Folder(<<File_bad, File_faq, File_nocol, File_kantor>>),
     Folder(<<File_faq, File_dup>>), Folder(<<File_jam_buka>>)}

ScenarioQueries ==
    {Str_lokasi_kantor_dimana, Str_jam_berapa_buka, Str_kantor_lokasi,
     Str_DimanaLokasiKantor, Str_why_why, Str_Why}

\* The query and question texts the inputs give rise to
QueryTexts == {Strip(q) : q \in (QueryInputs \cup ScenarioQueries) \ {NotAString}}

RECURSIVE RowQuestions(_)
RowQuestions(rows) ==
    IF rows = <<>> THEN {}
    ELSE {Strip(Head(rows).question)} \cup RowQuestions(Tail(rows))

RECURSIVE FileQuestions(_)
FileQuestions(files) ==
    IF files = <<>> THEN {}
    ELSE RowQuestions(Head(files).rows) \cup FileQuestions(Tail(files))

QuestionTexts ==
    {Strip(i[1]) : i \in {j \in AddInputs : j[1] # NotAString}}
    \cup UNION {FileQuestions(f.csv_files) : f \in FolderInputs \cup ScenarioFolders}

---------------------------------------------------------------------------
(* _generate_variations *)

prefixes ==
    << <<"a","p","a">>,
       <<"b","a","g","a","i","m","a","n","a">>,
       <<"m","e","n","g","a","p","a">>,
       <<"d","i","m","a","n","a">>,
       <<"k","a","p","a","n">>,
       <<"s","i","a","p","a">>,
       <<"w","h","a","t">>,
       <<"h","o","w">>,
       <<"w","h","y">>,
       <<"w","h","e","r","e">>,
       <<"w","h","e","n">>,
       <<"w","h","o">> >>

suffixes == << <<"?">>, <<".">>, <<"!">> >>

SuffixVariations(base) ==
    {Strip(SubSeq(base, 1, Len(base) - Len(suffixes[k]))) :
        k \in {j \in DOMAIN suffixes : EndsWith(base, suffixes[j])}}

PrefixVariation(base, prefix) ==
    IF StartsWith(base, prefix)
    THEN Strip(SubSeq(base, Len(prefix) + 1, Len(base)))
    ELSE prefix \o <<" ">> \o base

\* generate_variations adding the prepended form for every prefix, a prefix the
\* base starts with included
generate_variations_BothForms(question) ==
    LET base == Strip(Lower(question))
    IN {base} \cup SuffixVariations(base)
              \cup {PrefixVariation(base, prefixes[k]) : k \in DOMAIN prefixes}
              \cup {prefixes[k] \o <<" ">> \o base : k \in DOMAIN prefixes}

generate_variations(question) ==
    LET base == Strip(Lower(question))
    IN {base} \cup SuffixVariations(base)
              \cup {PrefixVariation(base, prefixes[k]) : k \in DOMAIN prefixes}

---------------------------------------------------------------------------
(* Scores.  A score is <<n, d>> with d > 0, the number n/d. *)

Score(n, d) == <<n, d>>
ScoreLt(a, b) == a[1] * b[2] < b[1] * a[2]
ScoreGe(a, b) == ~ScoreLt(a, b)
ScoreEq(a, b) == a[1] * b[2] = b[1] * a[2]
Hundred == Score(100, 1)
Zero == Score(0, 1)

Max2(a, b) == IF a >= b THEN a ELSE b

\* One row of the longest-common-subsequence table: row[j + 1] is the LCS length
\* of the characters consumed so far with the first j characters of b.
RECURSIVE LcsRow(_, _, _, _)
LcsRow(prev, c, b, cur) ==
    LET j == Len(cur)
        next == Append(cur, IF c = b[j] THEN prev[j] + 1
                            ELSE Max2(prev[j + 1], cur[j]))
    IN IF j > Len(b) THEN cur
       ELSE IF Len(next) > 0 THEN LcsRow(prev, c, b, next) ELSE cur

RECURSIVE LcsRows(_, _, _)
LcsRows(a, b, prev) ==
    IF a = <<>> THEN prev[Len(b) + 1]
    ELSE LET row == LcsRow(prev, Head(a), b, <<0>>)
         IN IF Len(row) > 0 THEN LcsRows(Tail(a), b, row) ELSE 0

Lcs(a, b) == LcsRows(a, b, [j \in 1..(Len(b) + 1) |-> 0])

\* rapidfuzz.fuzz.ratio: the normalised Indel similarity, 100 * 2 * LCS / (len1 + len2)
ratio(s1, s2) ==
    IF Len(s1) + Len(s2) = 0 THEN Hundred
    ELSE Score(200 * Lcs(s1, s2), Len(s1) + Len(s2))

ScoreMax(S) ==
    IF S = {} THEN Zero
    ELSE LET x == CHOOSE x \in S : \A y \in S : ScoreGe(x, y)
         IN x

\* _partial_ratio_impl comparing s1 only with the windows of s2 as long as s1
partial_ratio_impl_FullWindows(s1, s2) ==
    LET len1 == Len(s1)
        len2 == Len(s2)
    IN IF len1 = 0 THEN Zero
       ELSE ScoreMax({ratio(s1, SubSeq(s2, i + 1, i + len1)) : i \in 0..(len2 - len1)})

\* rapidfuzz's _partial_ratio_impl(s1, s2), len(s1) <= len(s2): the best ratio of s1
\* with a prefix of s2 shorter than s1, a window of s2 as long as s1, or a suffix of
\* s2 no longer than s1; a substring is tried only when its boundary character
\* occurs in s1.
partial_ratio_impl(s1, s2) ==
    LET len1 == Len(s1)
        len2 == Len(s2)
        chars == Range(s1)
        heads == {i \in 1..(len1 - 1) : s2[i] \in chars}
        wins  == {i \in 0..(len2 - len1 - 1) : s2[i + len1] \in chars}
        tails == {i \in (len2 - len1)..(len2 - 1) : s2[i + 1] \in chars}
    IN IF len1 = 0 THEN Zero
       ELSE ScoreMax({ratio(s1, SubSeq(s2, 1, i)) : i \in heads}
               \cup {ratio(s1, SubSeq(s2, i + 1, i + len1)) : i \in wins}
               \cup {ratio(s1, SubSeq(s2, i + 1, len2)) : i \in tails})

\* rapidfuzz.fuzz.partial_ratio, no processor: the comparison is case-sensitive
partial_ratio(s1, s2) ==
    IF s1 = <<>> /\ s2 = <<>> THEN Hundred
    ELSE LET shorter == IF Len(s1) <= Len(s2) THEN s1 ELSE s2
             longer  == IF Len(s1) <= Len(s2) THEN s2 ELSE s1
             res == partial_ratio_impl(shorter, longer)
         IN IF ~ScoreEq(res, Hundred) /\ Len(s1) = Len(s2)
            THEN LET res2 == partial_ratio_impl(longer, shorter)
                 IN IF ScoreLt(res, res2) THEN res2 ELSE res
            ELSE res

---------------------------------------------------------------------------
(* _find_best_matches *)

similarity_threshold == 75

\* A candidate is [template, score, method]

RECURSIVE ExactMatches(_, _)

\* ExactMatches collecting the candidates from the end of the collection backwards
ExactMatches_NewestFirst(ts, query_lower) ==
    IF ts = <<>> THEN <<>>
    ELSE ExactMatches(Tail(ts), query_lower)
         \o (IF query_lower \in Head(ts).variations
             THEN <<[template |-> Head(ts), score |-> Hundred, method |-> "exact"]>>
             ELSE <<>>)

\* lines 208-215: one exact candidate per template with a variation equal to the
\* case-folded query, in collection order
ExactMatches(ts, query_lower) ==
    IF ts = <<>> THEN <<>>
    ELSE (IF query_lower \in Head(ts).variations
          THEN <<[template |-> Head(ts), score |-> Hundred, method |-> "exact"]>>
          ELSE <<>>) \o ExactMatches(Tail(ts), query_lower)

\* rapidfuzz.process.extract(query, questions, scorer=partial_ratio, limit=...): the
\* (question, score, index) triples of the best `limit` scores, best first, equal
\* scores in index order
RECURSIVE InsertByScore(_, _)
InsertByScore(sorted, x) ==
    IF sorted = <<>> THEN <<x>>
    ELSE IF ScoreLt(Head(sorted).score, x.score)
         THEN <<x>> \o sorted
         ELSE <<Head(sorted)>> \o InsertByScore(Tail(sorted), x)

RECURSIVE SortByScore(_, _)
SortByScore(todo, sorted) ==
    IF todo = <<>> THEN sorted
    ELSE SortByScore(Tail(todo), InsertByScore(sorted, Head(todo)))

\* The scorer on the texts of the inputs, computed once; it is partial_ratio there
ScoreTable ==
    [p \in QueryTexts \X QuestionTexts |-> partial_ratio(p[1], p[2])] @@ <<>>

\* line 221: scorer=fuzz.partial_ratio
scorer(query, question) ==
    IF <<query, question>> \in DOMAIN ScoreTable
    THEN ScoreTable[<<query, question>>]
    ELSE partial_ratio(query, question)

Take(s, n) == SubSeq(s, 1, IF n < Len(s) THEN n ELSE Len(s))

extract(query, questions, limit) ==
    Take(SortByScore([i \in DOMAIN questions |->
                         [question |-> questions[i],
                          score |-> scorer(query, questions[i]),
                          idx |-> i - 1]], <<>>),
         limit)

\* next((x for x in seq if P(x)), None), as the index of x or 0
FirstIndex(seq, P(_)) ==
    IF \E i \in DOMAIN seq : P(seq[i])
    THEN CHOOSE i \in DOMAIN seq : P(seq[i]) /\ \A j \in 1..(i - 1) : ~P(seq[j])
    ELSE 0

\* list.remove(x): without the element at index i
RemoveAt(seq, i) == SubSeq(seq, 1, i - 1) \o SubSeq(seq, i + 1, Len(seq))

\* MergeFuzzy replacing a candidate on an equal score too (`<=` for `<` at line 230)
MergeFuzzy_ReplaceOnEqual(ts, matches, fm) ==
    IF ~ScoreGe(fm.score, Score(similarity_threshold, 1)) THEN matches
    ELSE LET HasQuestion(t) == t.question = fm.question
             ti == FirstIndex(ts, HasQuestion)
         IN IF ti = 0 THEN matches
            ELSE LET SameId(m) == m.template.id = ts[ti].id
                     ei == FirstIndex(matches, SameId)
                     new == [template |-> ts[ti], score |-> fm.score, method |-> "fuzzy"]
                 IN IF ei = 0 THEN Append(matches, new)
                    ELSE IF ~ScoreLt(fm.score, matches[ei].score)
                         THEN Append(RemoveAt(matches, ei), new)
                         ELSE matches

\* MergeFuzzy without the lookup of an existing candidate at lines 229-232
MergeFuzzy_AlwaysAppend(ts, matches, fm) ==
    IF ~ScoreGe(fm.score, Score(similarity_threshold, 1)) THEN matches
    ELSE LET HasQuestion(t) == t.question = fm.question
             ti == FirstIndex(ts, HasQuestion)
         IN IF ti = 0 THEN matches
            ELSE Append(matches, [template |-> ts[ti], score |-> fm.score,
                                  method |-> "fuzzy"])

\* lines 226-238: one fuzzy result merged into the candidates
MergeFuzzy(ts, matches, fm) ==
    IF ~ScoreGe(fm.score, Score(similarity_threshold, 1)) THEN matches
    ELSE LET HasQuestion(t) == t.question = fm.question
             ti == FirstIndex(ts, HasQuestion)
         IN IF ti = 0 THEN matches
            ELSE LET SameId(m) == m.template.id = ts[ti].id
                     ei == FirstIndex(matches, SameId)
                     new == [template |-> ts[ti], score |-> fm.score, method |-> "fuzzy"]
                 IN IF ei = 0 THEN Append(matches, new)
                    ELSE IF ScoreLt(matches[ei].score, fm.score)
                         THEN Append(RemoveAt(matches, ei), new)
                         ELSE matches

RECURSIVE FuzzyMatches(_, _, _)
FuzzyMatches(ts, matches, fuzzy_matches) ==
    IF fuzzy_matches = <<>> THEN matches
    ELSE FuzzyMatches(ts, MergeFuzzy(ts, matches, Head(fuzzy_matches)), Tail(fuzzy_matches))

\* lines 242-248: the keyword-overlap score of a template, (overlap / total_words) * 100
keyword_score(query_words, template) ==
    LET question_words == WordSet(Lower(template.question))
        overlap == Cardinality(query_words \cap question_words)
        total_words == Cardinality(query_words \cup question_words)
    IN IF total_words > 0 THEN Score(100 * overlap, total_words) ELSE Zero

\* MergeKeyword without the test of line 250 against similarity_threshold * 0.7
MergeKeyword_NoThreshold(matches, query_words, template) ==
    LET question_words == WordSet(Lower(template.question))
        ks == keyword_score(query_words, template)
        SameId(m) == m.template.id = template.id
    IN IF Cardinality(query_words \cup question_words) > 0
          /\ FirstIndex(matches, SameId) = 0
       THEN Append(matches, [template |-> template, score |-> ks, method |-> "keyword"])
       ELSE matches

\* lines 247-257: one template's keyword candidate merged into the candidates;
\* similarity_threshold * 0.7 is the float 52.5 = 525/10
MergeKeyword(matches, query_words, template) ==
    LET question_words == WordSet(Lower(template.question))
        ks == keyword_score(query_words, template)
        SameId(m) == m.template.id = template.id
    IN IF Cardinality(query_words \cup question_words) > 0
          /\ ScoreGe(ks, Score(similarity_threshold * 7, 10))
          /\ FirstIndex(matches, SameId) = 0
       THEN Append(matches, [template |-> template, score |-> ks, method |-> "keyword"])
       ELSE matches

RECURSIVE KeywordMatches(_, _, _)
KeywordMatches(ts, matches, query_words) ==
    IF ts = <<>> THEN matches
    ELSE KeywordMatches(Tail(ts), MergeKeyword(matches, query_words, Head(ts)), query_words)

\* lines 208-257: the merged candidates, before they are ranked
MergedCandidates(ts, query, max_matches) ==
    LET query_lower == Lower(query)
        exact == ExactMatches(ts, query_lower)
        fuzzy_matches == extract(query, [i \in DOMAIN ts |-> ts[i].question], max_matches * 2)
        fuzzy == FuzzyMatches(ts, exact, fuzzy_matches)
    IN KeywordMatches(ts, fuzzy, WordSet(query_lower))

\* RankedBefore with the sort key (-score, -priority)
RankedBefore_ScoreFirst(a, b) ==
    \/ ScoreLt(b.score, a.score)
    \/ /\ ScoreEq(a.score, b.score)
       /\ a.template.priority > b.template.priority

\* line 259: the sort key (-priority, -score); a before b
RankedBefore(a, b) ==
    \/ a.template.priority > b.template.priority
    \/ /\ a.template.priority = b.template.priority
       /\ ScoreLt(b.score, a.score)

\* list.sort is stable: x goes before the first element it is ranked before
RECURSIVE InsertRanked(_, _)
InsertRanked(sorted, x) ==
    IF sorted = <<>> THEN <<x>>
    ELSE IF RankedBefore(x, Head(sorted))
         THEN <<x>> \o sorted
         ELSE <<Head(sorted)>> \o InsertRanked(Tail(sorted), x)

RECURSIVE SortRanked(_, _)
SortRanked(todo, sorted) ==
    IF todo = <<>> THEN sorted
    ELSE SortRanked(Tail(todo), InsertRanked(sorted, Head(todo)))

\* line 259
SortMatches(matches) == SortRanked(matches, <<>>)

\* lines 203-265
find_best_matches(ts, query, max_matches) ==
    Take(SortMatches(MergedCandidates(ts, query, max_matches)), max_matches)

---------------------------------------------------------------------------
(* The templates folder and its CSV files *)

\* A file is [name, parses, columns, rows]; parses is FALSE for a file pandas cannot
\* read.  A row maps each column of the file to its cell: a str, or NaN for an
\* empty cell; a priority cell is [nan, val]: NaN, or the integer val.
Str_nan == <<"n","a","n">>

\* str(cell)
StrOf(cell) == IF cell = NaN THEN Str_nan ELSE cell

IsLetter(c) == LowerChar(c) # c \/ UpperChar(c) # c

\* str.title()
Title(s) ==
    [i \in 1..Len(s) |->
        IF i > 1 /\ IsLetter(s[i - 1]) THEN LowerChar(s[i]) ELSE UpperChar(s[i])]

\* str.replace('_', ' ')
ReplaceUnderscores(s) == [i \in 1..Len(s) |-> IF s[i] = "_" THEN " " ELSE s[i]]

\* os.path.splitext(filename)[0]: the name up to its last dot, leading dots apart
SplitextRoot(name) ==
    LET dots == {i \in 2..Len(name) : name[i] = "." /\ \E j \in 1..(i - 1) : name[j] # "."}
    IN IF dots = {} THEN name
       ELSE SubSeq(name, 1, (CHOOSE i \in dots : \A j \in dots : j <= i) - 1)

\* line 92
DefaultCategory(filename) == Title(ReplaceUnderscores(SplitextRoot(filename)))

Str_runtime == <<"r","u","n","t","i","m","e">>

Template(id, question, answer, category, priority, source_file) ==
    [id |-> id, question |-> question, answer |-> answer, category |-> category,
     priority |-> priority, source_file |-> source_file,
     variations |-> generate_variations(question)]

\* lines 95-123: one row; the state is [templates, categories]
LoadRow(st, file, row) ==
    LET question == Strip(StrOf(row.question))
        answer == Strip(StrOf(row.answer))
        template_category ==
            Strip(StrOf(IF "category" \in file.columns THEN row.category
                        ELSE DefaultCategory(file.name)))
        \* int(row.get('priority', 1)) raises ValueError on NaN: the row is skipped
        int_raises == "priority" \in file.columns /\ row.priority.nan
        priority == IF "priority" \in file.columns THEN row.priority.val ELSE 1
    IN IF question = <<>> \/ answer = <<>> \/ question = Str_nan \/ answer = Str_nan
       THEN st
       ELSE IF int_raises THEN st
       ELSE [templates |-> Append(st.templates,
                             Template(Len(st.templates), question, answer,
                                      template_category, priority, file.name)),
             categories |-> st.categories \cup {template_category}]

RECURSIVE LoadRows(_, _, _)
LoadRows(st, file, rows) ==
    IF rows = <<>> THEN st ELSE LoadRows(LoadRow(st, file, Head(rows)), file, Tail(rows))

\* lines 65-129
load_csv_template(st, file) ==
    IF ~file.parses THEN st
    ELSE IF ~({"question", "answer"} \subseteq file.columns) THEN st
    ELSE LoadRows(st, file, file.rows)

RECURSIVE LoadFiles(_, _)
LoadFiles(st, csv_files) ==
    IF csv_files = <<>> THEN st
    ELSE LoadFiles(load_csv_template(st, Head(csv_files)), Tail(csv_files))

---------------------------------------------------------------------------
(* The search index: key -> list of the ids of the templates under it *)

AddToBucket(index, key, id) ==
    IF key \in DOMAIN index
    THEN [index EXCEPT ![key] = Append(@, id)]
    ELSE (key :> <<id>>) @@ index

\* lines 156-159, 317-320: the template's id appended to the bucket of each of its
\* variations (a template's variations are distinct)
AddKeys(index, keys, id) ==
    [k \in keys |-> IF k \in DOMAIN index THEN Append(index[k], id) ELSE <<id>>] @@ index

RECURSIVE AddKeywords(_, _, _)
AddKeywords(index, keywords, id) ==
    IF keywords = <<>> THEN index
    ELSE AddKeywords(IF Len(Head(keywords)) > 2
                     THEN AddToBucket(index, Head(keywords), id) ELSE index,
                     Tail(keywords), id)

\* lines 155-166, one template
IndexTemplate(index, template) ==
    AddKeywords(AddKeys(index, template.variations, template.id),
                Split(Lower(template.question)), template.id)

RECURSIVE IndexAll(_, _)
IndexAll(index, ts) ==
    IF ts = <<>> THEN index ELSE IndexAll(IndexTemplate(index, Head(ts)), Tail(ts))

EmptyDict == <<>>

\* lines 151-171
build_search_index(ts) == IndexAll(EmptyDict, ts)

---------------------------------------------------------------------------
(* The matcher's operations, each a whole call *)

Timestamp == <<"<datetime>">>

\* Worker threads that may run add_template at the same time
Threads == {1, 2}

Idle == [pc |-> "idle"]
NothingSeen == [during |-> FALSE]
NoRound == [begun |-> 0, calls |-> <<>>]

\* A call's arguments: <<question, answer, category, priority>> of add_template,
\* <<query, None, None, max_matches>> of match_template
NoArgs == <<None, None, None, 0>>

Call(op, arg, val, hit) == [op |-> op, arg |-> arg, val |-> val, hit |-> hit]

\* Reloaded with the index built only when every file could be loaded
Reloaded_IndexUnlessFailure(f, old_last_reload) ==
    LET st == LoadFiles([templates |-> <<>>, categories |-> {}], f.csv_files)
        found == f.exists /\ f.csv_files # <<>>
        failed == \E k \in DOMAIN f.csv_files :
                      \/ ~f.csv_files[k].parses
                      \/ ~({"question", "answer"} \subseteq f.csv_files[k].columns)
    IN [templates |-> IF found THEN st.templates ELSE <<>>,
        categories |-> IF found THEN st.categories ELSE {},
        template_index |-> IF found /\ ~failed THEN build_search_index(st.templates)
                           ELSE EmptyDict,
        last_reload |-> IF found THEN Timestamp ELSE old_last_reload,
        folder |-> Folder(f.csv_files)]

\* lines 26-35, 37-41: the fields after reload_templates; last_reload is set only
\* by a reload that found CSV files
Reloaded(f, old_last_reload) ==
    LET st == LoadFiles([templates |-> <<>>, categories |-> {}], f.csv_files)
        found == f.exists /\ f.csv_files # <<>>
    IN [templates |-> IF found THEN st.templates ELSE <<>>,
        categories |-> IF found THEN st.categories ELSE {},
        template_index |-> IF found THEN build_search_index(st.templates) ELSE EmptyDict,
        last_reload |-> IF found THEN Timestamp ELSE old_last_reload,
        folder |-> Folder(f.csv_files)]

\* reload_templates takes no argument; its record notes the call it follows and
\* what it discards: the number of cache entries and the templates
ReloadNote == << <<ret.op>>, Cardinality(DOMAIN question_cache), None, templates >>

\* reload_templates with the folder looked at before the fields are emptied: without
\* CSV files it returns with the fields as they were
reload_templates_ReturnsFirst ==
    LET r == Reloaded(folder, last_reload)
        found == folder.exists /\ folder.csv_files # <<>>
    IN /\ templates' = IF found THEN r.templates ELSE templates
       /\ template_index' = IF found THEN r.template_index ELSE template_index
       /\ categories' = IF found THEN r.categories ELSE categories
       /\ question_cache' = IF found THEN EmptyDict ELSE question_cache
       /\ last_reload' = r.last_reload
       /\ folder' = r.folder
       /\ ret' = Call("reload", ReloadNote, None, FALSE)
       /\ UNCHANGED <<rpc, apc, seen, round, app, mpc>>

\* reload_templates without lines 27-28: the files are loaded on top of the templates
\* already stored
reload_templates_NoClear ==
    LET st == LoadFiles([templates |-> templates, categories |-> categories],
                        folder.csv_files)
    IN /\ templates' = st.templates
       /\ template_index' = build_search_index(st.templates)
       /\ categories' = st.categories
       /\ question_cache' = EmptyDict
       /\ last_reload' = Reloaded(folder, last_reload).last_reload
       /\ folder' = Folder(folder.csv_files)
       /\ ret' = Call("reload", ReloadNote, None, FALSE)
       /\ UNCHANGED <<rpc, apc, seen, round, app, mpc>>

\* lines 25-63
reload_templates ==
    LET r == Reloaded(folder, last_reload)
    IN /\ templates' = r.templates
       /\ template_index' = r.template_index
       /\ categories' = r.categories
       /\ question_cache' = EmptyDict
       /\ last_reload' = r.last_reload
       /\ folder' = r.folder
       /\ ret' = Call("reload", ReloadNote, None, FALSE)
       /\ UNCHANGED <<rpc, apc, seen, round, app, mpc>>

\* QueryIsEmpty with the check of line 179 left out
QueryIsEmpty_Never(query) == FALSE

\* line 179: `if not query`
QueryIsEmpty(query) == query = <<>>

\* CacheKey without the case folding of line 182
CacheKey_CaseSensitive(query) == query

\* line 182
CacheKey(query) == Lower(query)

\* CacheEntry storing the matched question in place of the answer
CacheEntry_Question(best_match) == best_match.template.question

\* line 190, 192: the value stored in the cache for the best match
CacheEntry(best_match) == best_match.template.answer

\* lines 173-201: the call's effect on the matcher's fields and its return value
Match(query, max_matches) ==
    /\ UNCHANGED <<templates, template_index, categories, last_reload, folder>>
    /\ IF templates = <<>>
       THEN /\ ret' = Call("match", <<query, None, None, max_matches>>, None, FALSE)
            /\ UNCHANGED question_cache
       ELSE IF ~IsStr(query)
       THEN \* query.strip() raises AttributeError, caught at line 199
            /\ ret' = Call("match", <<query, None, None, max_matches>>, None, FALSE)
            /\ UNCHANGED question_cache
       ELSE LET q == Strip(query)
                cache_key == CacheKey(q)
                matches == find_best_matches(templates, q, max_matches)
            IN IF QueryIsEmpty(q)
               THEN /\ ret' = Call("match", <<query, None, None, max_matches>>, None, FALSE)
                    /\ UNCHANGED question_cache
               ELSE IF cache_key \in DOMAIN question_cache
               THEN /\ ret' = Call("match", <<query, None, None, max_matches>>,
                                   question_cache[cache_key], TRUE)
                    /\ UNCHANGED question_cache
               ELSE IF matches # <<>>
               THEN /\ question_cache' =
                          (cache_key :> CacheEntry(matches[1])) @@ question_cache
                    /\ ret' = Call("match", <<query, None, None, max_matches>>,
                                   matches[1].template.answer, FALSE)
               ELSE /\ ret' = Call("match", <<query, None, None, max_matches>>, None, FALSE)
                    /\ UNCHANGED question_cache

\* match_template, called with no other call in progress
match_template(query, max_matches) ==
    /\ Match(query, max_matches)
    /\ UNCHANGED <<rpc, apc, seen, round, app, mpc>>

\* add_result numbering the new template from 1: id = len(self.templates) + 1
add_result_CountsFromOne(st, question, answer, category, priority) ==
    LET template == Template(Len(st.templates) + 1, Strip(question), Strip(answer),
                             category, priority, Str_runtime)
    IN IF ~IsStr(question) \/ ~IsStr(answer)
       THEN [templates |-> st.templates, categories |-> st.categories,
             template_index |-> st.template_index, val |-> False]
       ELSE IF category = Unhashable
       THEN [templates |-> Append(st.templates, template), categories |-> st.categories,
             template_index |-> st.template_index, val |-> False]
       ELSE [templates |-> Append(st.templates, template),
             categories |-> st.categories \cup {category},
             template_index |-> AddKeys(st.template_index, template.variations, template.id),
             val |-> True]

\* lines 301-327 on the fields st = [templates, categories, template_index]: the
\* fields after the call, and val, the value returned
add_result(st, question, answer, category, priority) ==
    LET template == Template(Len(st.templates), Strip(question), Strip(answer),
                             category, priority, Str_runtime)
    IN IF ~IsStr(question) \/ ~IsStr(answer)
       THEN \* .strip() raises before anything is stored
            [templates |-> st.templates, categories |-> st.categories,
             template_index |-> st.template_index, val |-> False]
       ELSE IF category = Unhashable
       THEN \* line 315 raises TypeError after line 314 appended the template
            [templates |-> Append(st.templates, template), categories |-> st.categories,
             template_index |-> st.template_index, val |-> False]
       ELSE [templates |-> Append(st.templates, template),
             categories |-> st.categories \cup {category},
             template_index |-> AddKeys(st.template_index, template.variations, template.id),
             val |-> True]

\* add_template, called with no other call in progress
add_template(question, answer, category, priority) ==
    LET r == add_result([templates |-> templates, categories |-> categories,
                         template_index |-> template_index],
                        question, answer, category, priority)
    IN /\ Len(templates) < MaxTemplates
       /\ templates' = r.templates
       /\ categories' = r.categories
       /\ template_index' = r.template_index
       /\ ret' = Call("add", <<question, answer, category, priority>>, r.val, FALSE)
       /\ UNCHANGED <<question_cache, last_reload, folder, rpc, apc, seen, round, app, mpc>>

\* get_status_value telling has_templates from the category set
get_status_value_FromCategories ==
    [templates_loaded |-> Len(templates),
     categories |-> categories,
     similarity_threshold |-> similarity_threshold,
     cache_size |-> Cardinality(DOMAIN question_cache),
     last_reload |-> last_reload,
     has_templates |-> categories # {}]

\* lines 329-337
get_status_value ==
    [templates_loaded |-> Len(templates),
     categories |-> categories,
     similarity_threshold |-> similarity_threshold,
     cache_size |-> Cardinality(DOMAIN question_cache),
     last_reload |-> last_reload,
     has_templates |-> Len(templates) > 0]

\* get_status, lines 329-337: the dict is returned, no field is written
get_status ==
    /\ ret' = Call("status", NoArgs, get_status_value, FALSE)
    /\ UNCHANGED <<templates, template_index, categories, question_cache, last_reload,
                   folder, rpc, apc, seen, round, app, mpc>>

\* app.py lines 36-45: the processors before initialize_processors has run, and the
\* conversation_history of the one client; sent, rag_queries and last describe the
\* last handler that ran: the messages it sent on the websocket, the queries it gave
\* to the RAG processor, and its utterance and template_response; tasks are the
\* per-message tasks (lines 164-170) suspended at an await, in the order of their
\* creation; answered[i] is the utterance responses[i] was computed for
NoProcessors == [stt |-> FALSE, tts |-> FALSE, rag |-> "none", template |-> FALSE,
                 initialized |-> FALSE]
NoHistory == [transcripts |-> <<>>, responses |-> <<>>, template_matches |-> <<>>]
NoHandler == [handler |-> "none", utterance |-> None, template_response |-> None]

AppOff == [started |-> FALSE, processors |-> NoProcessors, history |-> NoHistory,
           sent |-> <<>>, rag_queries |-> <<>>, last |-> NoHandler,
           tasks |-> <<>>, answered |-> <<>>]

\* __init__ (lines 13-23): empty fields, then reload_templates()
Init ==
    \E f \in FolderInputs :
        LET r == Reloaded(f, None)
        IN /\ templates = r.templates
           /\ template_index = r.template_index
           /\ categories = r.categories
           /\ question_cache = EmptyDict
           /\ last_reload = r.last_reload
           /\ folder = r.folder
           /\ ret = Call("init", NoArgs, None, FALSE)
           /\ rpc = Idle
           /\ apc = [t \in Threads |-> Idle]
           /\ seen = NothingSeen
           /\ round = NoRound
           /\ app = AppOff
           /\ mpc = Idle

Next ==
    \/ reload_templates
    \/ \E q \in QueryInputs : match_template(q, DefaultMaxMatches)
    \/ \E i \in AddInputs : add_template(i[1], i[2], i[3], i[4])
    \/ get_status

Spec == Init /\ [][Next]_vars

---------------------------------------------------------------------------
(* The same operations called from several threads.  The class holds no lock, so
   a thread switch may fall between any two statements of reload_templates and of
   add_template; match_template runs here between two such statements. *)

\* Writer calls (reload_templates, add_template) begun by the threads in all
MaxWriterCalls == 3

ConcAddInputs ==
    {<<Str_Why, Str_y, Str_General, 1>>, <<Str_Why, Str_x, Unhashable, 1>>}

ConcQueryInputs == {Str_Why}

WritersIdle == rpc.pc = "idle" /\ \A t \in Threads : apc[t].pc = "idle"

ActiveAdds == {t \in Threads : apc[t].pc # "idle"}

Fields == [templates |-> templates, categories |-> categories,
           template_index |-> template_index]

WriterCall(op, arg) == [op |-> op, arg |-> arg]

\* A writer call begins: it joins the calls in progress, or opens a new round
Begin(call) ==
    IF WritersIdle
    THEN [begun |-> round.begun + 1, base |-> Fields, calls |-> <<call>>]
    ELSE [begun |-> round.begun + 1, base |-> round.base,
          calls |-> Append(round.calls, call)]

MayBegin == round.begun < MaxWriterCalls

\* lines 173-201, run between two statements of the writers
ConcMatch(query) ==
    /\ Match(query, DefaultMaxMatches)
    /\ seen' = IF rpc.pc # "idle" /\ round.calls = <<WriterCall("reload", NoArgs)>>
               THEN [during |-> TRUE, observed |-> templates, old |-> rpc.old,
                     new |-> Reloaded(folder, None).templates]
               ELSE NothingSeen
    /\ UNCHANGED <<rpc, apc, round, app, mpc>>

\* lines 27-41: the four fields are emptied; the call ends here when there is no
\* folder or no CSV file
ReloadStart ==
    /\ rpc.pc = "idle"
    /\ MayBegin
    /\ templates' = <<>>
    /\ template_index' = EmptyDict
    /\ categories' = {}
    /\ question_cache' = EmptyDict
    /\ folder' = Folder(folder.csv_files)
    /\ IF folder.exists /\ folder.csv_files # <<>>
       THEN /\ rpc' = [pc |-> "load", k |-> 1, old |-> templates]
            /\ UNCHANGED ret
       ELSE /\ ret' = Call("reload", NoArgs, None, FALSE)
            /\ UNCHANGED rpc
    /\ round' = Begin(WriterCall("reload", NoArgs))
    /\ UNCHANGED <<last_reload, apc, seen, app, mpc>>

\* lines 45-54: one pass of the loop over csv_files
ReloadLoad ==
    /\ rpc.pc = "load"
    /\ LET st == load_csv_template([templates |-> templates, categories |-> categories],
                                   folder.csv_files[rpc.k])
       IN /\ templates' = st.templates
          /\ categories' = st.categories
    /\ rpc' = IF rpc.k < Len(folder.csv_files)
              THEN [rpc EXCEPT !.k = @ + 1]
              ELSE [rpc EXCEPT !.pc = "index"]
    /\ UNCHANGED <<template_index, question_cache, last_reload, folder, ret, apc, seen, round, app, mpc>>

\* lines 56-58
ReloadIndex ==
    /\ rpc.pc = "index"
    /\ template_index' = build_search_index(templates)
    /\ last_reload' = Timestamp
    /\ ret' = Call("reload", NoArgs, None, FALSE)
    /\ rpc' = Idle
    /\ UNCHANGED <<templates, categories, question_cache, folder, apc, seen, round, app, mpc>>

\* lines 303-312: the template is built, its id read from len(self.templates)
AddStart(t, question, answer, category, priority) ==
    /\ apc[t].pc = "idle"
    /\ MayBegin
    /\ Len(templates) + Cardinality(ActiveAdds) < MaxTemplates
    /\ round' = Begin(WriterCall("add", <<question, answer, category, priority>>))
    /\ IF ~IsStr(question) \/ ~IsStr(answer)
       THEN /\ ret' = Call("add", <<question, answer, category, priority>>, False, FALSE)
            /\ UNCHANGED apc
       ELSE /\ apc' = [apc EXCEPT ![t] =
                          [pc |-> "append",
                           arg |-> <<question, answer, category, priority>>,
                           template |-> Template(Len(templates), Strip(question),
                                                 Strip(answer), category, priority,
                                                 Str_runtime)]]
            /\ UNCHANGED ret
    /\ UNCHANGED <<templates, template_index, categories, question_cache, last_reload,
                   folder, rpc, seen, app, mpc>>

\* line 314
AddAppend(t) ==
    /\ apc[t].pc = "append"
    /\ templates' = Append(templates, apc[t].template)
    /\ apc' = [apc EXCEPT ![t].pc = "category"]
    /\ UNCHANGED <<template_index, categories, question_cache, last_reload, folder, ret,
                   rpc, seen, round, app, mpc>>

\* line 315; an unhashable category raises, and lines 325-327 return False
AddCategory(t) ==
    /\ apc[t].pc = "category"
    /\ IF apc[t].template.category = Unhashable
       THEN /\ ret' = Call("add", apc[t].arg, False, FALSE)
            /\ apc' = [apc EXCEPT ![t] = Idle]
            /\ UNCHANGED categories
       ELSE /\ categories' = categories \cup {apc[t].template.category}
            /\ apc' = [apc EXCEPT ![t].pc = "index"]
            /\ UNCHANGED ret
    /\ UNCHANGED <<templates, template_index, question_cache, last_reload, folder, rpc,
                   seen, round, app, mpc>>

\* lines 317-323
AddIndex(t) ==
    /\ apc[t].pc = "index"
    /\ template_index' = AddKeys(template_index, apc[t].template.variations,
                                 apc[t].template.id)
    /\ ret' = Call("add", apc[t].arg, True, FALSE)
    /\ apc' = [apc EXCEPT ![t] = Idle]
    /\ UNCHANGED <<templates, categories, question_cache, last_reload, folder, rpc,
                   seen, round, app, mpc>>

\* lines 175-190 of a match_template call that finds a best match: the fields are
\* read and the answer is computed; the call is then about to store it
MatchBegin(query) ==
    /\ mpc.pc = "idle"
    /\ templates # <<>>
    /\ IsStr(query)
    /\ ~QueryIsEmpty(Strip(query))
    /\ CacheKey(Strip(query)) \notin DOMAIN question_cache
    /\ find_best_matches(templates, Strip(query), DefaultMaxMatches) # <<>>
    /\ mpc' = [pc |-> "store", query |-> query, cache_key |-> CacheKey(Strip(query)),
               answer |-> CacheEntry(find_best_matches(templates, Strip(query),
                                                       DefaultMaxMatches)[1])]
    /\ UNCHANGED <<templates, template_index, categories, question_cache, last_reload,
                   folder, ret, rpc, apc, seen, round, app>>

\* lines 192-195: the answer is stored in the dict that self._question_cache names
\* now, and returned
MatchStore ==
    /\ mpc.pc = "store"
    /\ question_cache' = (mpc.cache_key :> mpc.answer) @@ question_cache
    /\ ret' = Call("match", <<mpc.query, None, None, DefaultMaxMatches>>, mpc.answer, FALSE)
    /\ mpc' = Idle
    /\ UNCHANGED <<templates, template_index, categories, last_reload, folder, rpc, apc,
                   seen, round, app>>

NextConc ==
    \/ \E q \in ConcQueryInputs : ConcMatch(q)
    \/ \E q \in ConcQueryInputs : MatchBegin(q)
    \/ MatchStore
    \/ ReloadStart
    \/ ReloadLoad
    \/ ReloadIndex
    \/ \E t \in Threads : \E i \in ConcAddInputs : AddStart(t, i[1], i[2], i[3], i[4])
    \/ \E t \in Threads : AddAppend(t)
    \/ \E t \in Threads : AddCategory(t)
    \/ \E t \in Threads : AddIndex(t)

SpecConc == Init /\ [][NextConc]_vars

---------------------------------------------------------------------------
(* The scenario of an office FAQ: one source file, queries in another word order *)

InitScenario ==
    \E f \in ScenarioFolders :
        LET r == Reloaded(f, None)
        IN /\ templates = r.templates
           /\ template_index = r.template_index
           /\ categories = r.categories
           /\ question_cache = EmptyDict
           /\ last_reload = r.last_reload
           /\ folder = r.folder
           /\ ret = Call("init", NoArgs, None, FALSE)
           /\ rpc = Idle
           /\ apc = [t \in Threads |-> Idle]
           /\ seen = NothingSeen
           /\ round = NoRound
           /\ app = AppOff
           /\ mpc = Idle

\* lines 286-295: what search_templates returns for the candidates found
SearchResult(matches) ==
    [i \in DOMAIN matches |->
        [question |-> matches[i].template.question,
         answer |-> matches[i].template.answer,
         category |-> matches[i].template.category,
         score |-> matches[i].score,
         method |-> matches[i].method]]

\* search_templates, lines 282-299: the query goes to _find_best_matches as it is;
\* query.lower() of a query that is no string raises at line 205, caught at line 297
SearchQueries == ScenarioQueries \cup {NotAString}
SearchLimits == {1, 2}

search_templates(query, limit) ==
    /\ ret' = Call("search", <<query, None, None, limit>>,
                   IF IsStr(query)
                   THEN SearchResult(find_best_matches(templates, query, limit))
                   ELSE <<>>,
                   FALSE)
    /\ UNCHANGED <<templates, template_index, categories, question_cache, last_reload,
                   folder, rpc, apc, seen, round, app, mpc>>

NextScenario ==
    \/ reload_templates
    \/ \E q \in ScenarioQueries : match_template(q, DefaultMaxMatches)
    \/ \E q \in SearchQueries, limit \in SearchLimits : search_templates(q, limit)

SpecScenario == InitScenario /\ [][NextScenario]_vars

---------------------------------------------------------------------------
(* app.py: the handlers of the websocket messages *)

MaxHistory == 2

\* app.py line 237 and 297
Apology == <<"M","a","a","f",","," ","s","i","s","t","e","m"," ","A","I"," ","b","e","l","u","m"," ","s","i","a","p","."," ","S","i","l","a","k","a","n"," ","c","o","b","a"," ","b","e","b","e","r","a","p","a"," ","s","a","a","t"," ","l","a","g","i",".">>
\* the text an LLM that is ready generates, and rag_processor.py line 263
Str_generated == <<"g","e","n">>
Str_RagError == <<"M","a","a","f",","," ","t","e","r","j","a","d","i"," ","k","e","s","a","l","a","h","a","n"," ","d","a","l","a","m"," ","m","e","m","p","r","o","s","e","s"," ","p","e","r","t","a","n","y","a","a","n"," ","A","n","d","a","."," ","S","i","l","a","k","a","n"," ","c","o","b","a"," ","l","a","g","i",".">>

Msg(type, text) == [type |-> type, text |-> text]
Err_Initializing == <<"<System still initializing, please wait...>">>
Err_Transcribe == <<"<Could not transcribe audio. Please try again.>">>
Err_Processing == <<"<Processing error>">>
Stage_transcribing == <<"<transcribing>">>
Stage_generating == <<"<generating>">>

\* Python's truth value of an Optional[str]
Truthy(v) == v # None /\ v # <<>>

\* rag_processor.py lines 237-263: generate_response of a processor whose LLM is not
\* ready returns the apology; it raises nothing
RagReplies == {Str_generated, Str_RagError}
generate_response(rag, reply) == IF rag = "notready" THEN Apology ELSE reply

\* Route answering from the RAG processor whenever there is one
Route_RagFirst(template_response, rag) ==
    IF rag # "none" THEN "rag"
    ELSE IF Truthy(template_response) THEN "template"
    ELSE "apology"

\* app.py lines 222-237 and 288-297: where the response comes from
Route(template_response, rag) ==
    IF Truthy(template_response) THEN "template"
    ELSE IF rag # "none" THEN "rag"
    ELSE "apology"

\* app.py lines 245-261 and 307-323: the messages of the speech synthesis
TtsOutcomes == {"audio", "none", "raises"}
TtsMessages(tts, outcome) ==
    IF ~tts \/ outcome = "none" THEN <<>>
    ELSE IF outcome = "audio" THEN <<Msg("audio_response", None)>>
    ELSE <<Msg("error", Err_Processing)>>

\* app.py lines 217-261 and 283-323: the utterance is matched, answered and spoken
Respond(handler, utterance, reply, outcome, sent_before) ==
    /\ IF app.processors.template
       THEN Match(utterance, DefaultMaxMatches)
       ELSE UNCHANGED <<templates, template_index, categories, question_cache,
                        last_reload, folder, ret>>
    /\ LET template_response == IF app.processors.template THEN ret'.val ELSE None
           route == Route(template_response, app.processors.rag)
           response == IF route = "template" THEN template_response
                       ELSE IF route = "rag"
                            THEN generate_response(app.processors.rag, reply)
                            ELSE Apology
           h == app.history
       IN app' = [app EXCEPT
                    !.history =
                        [transcripts |-> Append(h.transcripts, utterance),
                         responses |-> Append(h.responses, response),
                         template_matches |->
                             IF handler = "audio" /\ route = "template"
                             THEN Append(h.template_matches, <<utterance, response>>)
                             ELSE h.template_matches],
                    !.answered = Append(app.answered, utterance),
                    !.sent = sent_before \o <<Msg("response", response)>>
                                \o TtsMessages(app.processors.tts, outcome),
                    !.rag_queries = IF route = "rag" THEN <<utterance>> ELSE <<>>,
                    !.last = [handler |-> handler, utterance |-> utterance,
                              template_response |-> template_response]]
    /\ UNCHANGED <<rpc, apc, seen, round, mpc>>

\* a handler that ends before the utterance is matched
Ends(handler, utterance, sent) ==
    /\ app' = [app EXCEPT !.sent = sent, !.rag_queries = <<>>,
                          !.last = [handler |-> handler, utterance |-> utterance,
                                    template_response |-> None]]
    /\ UNCHANGED <<templates, template_index, categories, question_cache, last_reload,
                   folder, ret, rpc, apc, seen, round, mpc>>

\* app.py lines 46-111: the processors that could be constructed; the template
\* matcher's constructor loads the folder
ProcessorInputs ==
    [stt : BOOLEAN, tts : BOOLEAN, rag : {"none", "ready", "notready"}, template : BOOLEAN]

initialize_processors(p) ==
    /\ ~app.started
    /\ app' = [app EXCEPT !.started = TRUE,
                          !.processors = [stt |-> p.stt, tts |-> p.tts, rag |-> p.rag,
                                          template |-> p.template,
                                          initialized |-> p.stt /\ p.tts]]
    /\ IF p.template
       THEN LET r == Reloaded(folder, None)
            IN /\ templates' = r.templates
               /\ template_index' = r.template_index
               /\ categories' = r.categories
               /\ question_cache' = EmptyDict
               /\ last_reload' = r.last_reload
               /\ folder' = r.folder
       ELSE UNCHANGED <<templates, template_index, categories, question_cache,
                        last_reload, folder>>
    /\ UNCHANGED <<ret, rpc, apc, seen, round, mpc>>

\* app.py lines 274-329; data.get("text", "") of a payload whose text is no string
\* raises at .strip(), and the handler reports the error
TextInputs == {Str_Why, Str_x, Str_blank, NotAString}

process_text_message(data_text, reply, outcome) ==
    /\ Len(app.history.transcripts) < MaxHistory
    /\ IF ~IsStr(data_text)
       THEN Ends("text", data_text, <<Msg("error", Err_Processing)>>)
       ELSE IF Strip(data_text) = <<>>
       THEN Ends("text", data_text, <<>>)
       ELSE Respond("text", Strip(data_text), reply, outcome, <<>>)

\* app.py lines 180-272; the transcript is what the STT processor returns for the
\* audio: None, a blank or a text
TranscriptInputs == {None, Str_blank, Str_Why, Str_x}

process_audio_message(transcript, reply, outcome) ==
    /\ Len(app.history.transcripts) < MaxHistory
    /\ IF ~app.processors.initialized
       THEN Ends("audio", None, <<Msg("error", Err_Initializing)>>)
       ELSE IF transcript = None \/ Strip(transcript) = <<>>
       THEN Ends("audio", transcript,
                 <<Msg("processing", Stage_transcribing), Msg("error", Err_Transcribe)>>)
       ELSE Respond("audio", transcript, reply, outcome,
                    <<Msg("processing", Stage_transcribing), Msg("transcript", transcript),
                      Msg("processing", Stage_generating)>>)

AppFolders == {Folder(<<>>), Folder(<<File_faq>>)}

\* the process starts: no processor yet, the matcher not yet constructed
InitApp ==
    /\ templates = <<>>
    /\ template_index = EmptyDict
    /\ categories = {}
    /\ question_cache = EmptyDict
    /\ last_reload = None
    /\ folder \in AppFolders
    /\ ret = Call("init", NoArgs, None, FALSE)
    /\ rpc = Idle
    /\ apc = [t \in Threads |-> Idle]
    /\ seen = NothingSeen
    /\ round = NoRound
    /\ app = AppOff
    /\ mpc = Idle

NextApp ==
    \/ \E p \in ProcessorInputs : initialize_processors(p)
    \/ \E d \in TextInputs, r \in RagReplies, o \in TtsOutcomes :
           process_text_message(d, r, o)
    \/ \E t \in TranscriptInputs, r \in RagReplies, o \in TtsOutcomes :
           process_audio_message(t, r, o)

SpecApp == InitApp /\ [][NextApp]_vars

---------------------------------------------------------------------------
(* The per-message tasks of one client, interleaved at their awaits.  A task runs
   from its creation (app.py lines 164-170) or from the await it was suspended at to
   its next await or its end; an await that no access to conversation_history
   follows is run through. *)

Task(handler, utterance, pc) == [handler |-> handler, utterance |-> utterance, pc |-> pc]

\* lines 239-261 and 299-323: the response is recorded, sent and spoken
Answer(a, utterance, response, outcome) ==
    [a EXCEPT !.history.responses = Append(@, response),
              !.answered = Append(@, utterance),
              !.sent = <<Msg("response", response)>> \o TtsMessages(a.processors.tts, outcome)]

\* lines 217-237 and 283-297 of the task `task`, which is the k-th suspended task, or
\* a task just created when k = 0: the utterance is matched and routed; the task is
\* suspended at the executor's await (lines 228 and 290) when the RAG processor answers
Generate(k, task, a, outcome) ==
    /\ IF a.processors.template
       THEN Match(task.utterance, DefaultMaxMatches)
       ELSE UNCHANGED <<templates, template_index, categories, question_cache,
                        last_reload, folder, ret>>
    /\ LET template_response == IF a.processors.template THEN ret'.val ELSE None
           route == Route(template_response, a.processors.rag)
           rest == IF k = 0 THEN a.tasks ELSE RemoveAt(a.tasks, k)
           b == [a EXCEPT
                   !.tasks = rest,
                   !.rag_queries = IF route = "rag" THEN <<task.utterance>> ELSE <<>>,
                   !.last = [handler |-> task.handler, utterance |-> task.utterance,
                             template_response |-> template_response],
                   !.history.template_matches =
                       IF task.handler = "audio" /\ route = "template"
                       THEN Append(@, <<task.utterance, template_response>>)
                       ELSE @]
       IN app' = IF route = "rag"
                 THEN [b EXCEPT !.tasks = Append(rest, Task(task.handler, task.utterance, "rag")),
                                !.sent = <<>>]
                 ELSE Answer(b, task.utterance,
                             IF route = "template" THEN template_response ELSE Apology,
                             outcome)
    /\ UNCHANGED <<rpc, apc, seen, round, mpc>>

\* process_text_message, lines 274-299, from the task's creation
TextBegin(data_text, outcome) ==
    /\ Len(app.history.transcripts) < MaxHistory
    /\ IF ~IsStr(data_text)
       THEN Ends("text", data_text, <<Msg("error", Err_Processing)>>)
       ELSE IF Strip(data_text) = <<>>
       THEN Ends("text", data_text, <<>>)
       ELSE Generate(0, Task("text", Strip(data_text), "new"),
                     [app EXCEPT !.history.transcripts = Append(@, Strip(data_text))],
                     outcome)

\* process_audio_message, lines 180-210, from the task's creation: the transcript is
\* recorded, and the task is suspended at the send_json of line 210
AudioBegin(transcript) ==
    /\ Len(app.history.transcripts) < MaxHistory
    /\ IF ~app.processors.initialized
       THEN Ends("audio", None, <<Msg("error", Err_Initializing)>>)
       ELSE IF transcript = None \/ Strip(transcript) = <<>>
       THEN Ends("audio", transcript,
                 <<Msg("processing", Stage_transcribing), Msg("error", Err_Transcribe)>>)
       ELSE /\ app' = [app EXCEPT
                         !.history.transcripts = Append(@, transcript),
                         !.tasks = Append(@, Task("audio", transcript, "transcript")),
                         !.sent = <<Msg("processing", Stage_transcribing),
                                    Msg("transcript", transcript)>>,
                         !.rag_queries = <<>>,
                         !.last = [handler |-> "audio", utterance |-> transcript,
                                   template_response |-> None]]
            /\ UNCHANGED <<templates, template_index, categories, question_cache,
                           last_reload, folder, ret, rpc, apc, seen, round, mpc>>

\* process_audio_message, lines 215-239, resumed after the send_json of line 210
AudioGenerate(k, outcome) ==
    /\ k \in DOMAIN app.tasks
    /\ app.tasks[k].pc = "transcript"
    /\ Generate(k, app.tasks[k], app, outcome)

\* lines 228-239 and 290-299, resumed when the executor has run generate_response
RagDone(k, reply, outcome) ==
    /\ k \in DOMAIN app.tasks
    /\ app.tasks[k].pc = "rag"
    /\ app' = Answer([app EXCEPT !.tasks = RemoveAt(@, k)], app.tasks[k].utterance,
                     generate_response(app.processors.rag, reply), outcome)
    /\ UNCHANGED <<templates, template_index, categories, question_cache, last_reload,
                   folder, ret, rpc, apc, seen, round, mpc>>

TaskSlots == 1..MaxHistory

NextTasks ==
    \/ \E p \in ProcessorInputs : initialize_processors(p)
    \/ \E d \in TextInputs, o \in TtsOutcomes : TextBegin(d, o)
    \/ \E t \in TranscriptInputs : AudioBegin(t)
    \/ \E k \in TaskSlots, o \in TtsOutcomes : AudioGenerate(k, o)
    \/ \E k \in TaskSlots, r \in RagReplies, o \in TtsOutcomes : RagDone(k, r, o)

SpecTasks == InitApp /\ [][NextTasks]_vars

---------------------------------------------------------------------------
(* Claims *)

\* The last call was a match_template that computed its answer (no early return,
\* no cache hit); the collection is the one it ran against
UncachedMatch ==
    /\ ret.op = "match"
    /\ ~ret.hit
    /\ templates # <<>>
    /\ IsStr(ret.arg[1])
    /\ Strip(ret.arg[1]) # <<>>

LastQuery == Strip(ret.arg[1])
LastMerged == MergedCandidates(templates, LastQuery, ret.arg[4])
LastRanked == SortMatches(LastMerged)

\* The templates whose question equals the last query case-insensitively
EqualQuestion == {i \in DOMAIN templates : Lower(templates[i].question) = Lower(ret.arg[1])}

IsExactOf(m, t) == m.template = t /\ m.method = "exact" /\ ScoreEq(m.score, Hundred)

\* C1, as claimed: an uncached match_template(q) with q equal, case-insensitively, to
\* the question of a stored template T returns T's answer, T's exact candidate being
\* ranked first whatever the scores and priorities of the other templates.
C1_Original ==
    UncachedMatch =>
        \A i \in EqualQuestion :
            /\ LastRanked # <<>>
            /\ IsExactOf(LastRanked[1], templates[i])
            /\ ret.val = templates[i].answer

\* C1, amended: T's exact candidate (score 100, method "exact") is in the ranked list,
\* and the only candidates ranked before it are those of strictly higher priority and
\* the exact candidates of templates of equal priority stored before T; when there
\* is none of these, match_template returns T's answer.
C1_ExactRankedFirst ==
    UncachedMatch =>
        \A i \in EqualQuestion :
            \E k \in DOMAIN LastRanked :
                /\ IsExactOf(LastRanked[k], templates[i])
                /\ \A j \in 1..(k - 1) :
                      \/ LastRanked[j].template.priority > templates[i].priority
                      \/ /\ LastRanked[j].template.priority = templates[i].priority
                         /\ LastRanked[j].method = "exact"
                         /\ LastRanked[j].template.id < templates[i].id
                /\ (k = 1 => ret.val = templates[i].answer)

\* C1's case: the query equals T's question, another template of the same priority is
\* a candidate too, and T's answer is the one returned
C1_Witness ==
    /\ UncachedMatch
    /\ \E i \in EqualQuestion :
          /\ ret.val = templates[i].answer
          /\ \E k \in DOMAIN LastRanked :
                /\ LastRanked[k].template.id # templates[i].id
                /\ LastRanked[k].template.priority = templates[i].priority
                /\ LastRanked[k].template.answer # templates[i].answer

\* C2: whenever two candidates of the merged list differ in priority, the one of
\* higher priority is ranked first whatever the scores; an uncached match_template
\* returns the answer of a candidate that no other candidate exceeds in priority.
C2_PriorityDominates ==
    UncachedMatch =>
        /\ Len(LastRanked) = Len(LastMerged)
        /\ \A m \in Range(LastMerged) : m \in Range(LastRanked)
        /\ \A i, j \in DOMAIN LastRanked :
              LastRanked[j].template.priority > LastRanked[i].template.priority => j < i
        /\ LastMerged # <<>> =>
              /\ ret.val = LastRanked[1].template.answer
              /\ \A m \in Range(LastMerged) :
                    m.template.priority <= LastRanked[1].template.priority

\* C2's case: the returned answer is that of a candidate of priority 2 whose score is
\* below the score of a candidate of priority 1
C2_Witness ==
    /\ UncachedMatch
    /\ Len(LastRanked) >= 2
    /\ ret.val = LastRanked[1].template.answer
    /\ \E j \in DOMAIN LastRanked :
          /\ LastRanked[j].template.priority < LastRanked[1].template.priority
          /\ ScoreLt(LastRanked[1].score, LastRanked[j].score)
          /\ LastRanked[j].template.answer # ret.val

CacheSize == Cardinality(DOMAIN question_cache)

\* C3: match_template never raises; for a query that trims to empty, for any query
\* while the collection is empty, and for a query on which matching fails (no str),
\* it returns None and leaves the cache as it was.
C3_NoMatchNeverRaises ==
    [][\A q \in QueryInputs :
          (/\ (templates = <<>> \/ ~IsStr(q) \/ Strip(q) = <<>>)
           /\ ret'.op = "match"
           /\ match_template(q, DefaultMaxMatches))
          => /\ ret'.val = None
             /\ question_cache' = question_cache]_vars

\* C3's case: a blank query was answered None by a collection that holds a template
\* with an empty variation, the cache holding an earlier answer
C3_Witness ==
    /\ ret.op = "match"
    /\ IsStr(ret.arg[1])
    /\ Strip(ret.arg[1]) = <<>>
    /\ ret.val = None
    /\ \E i \in DOMAIN templates : <<>> \in templates[i].variations
    /\ question_cache # EmptyDict

\* C4: a match_template(q) that directly follows a match_template(q) returns the
\* same answer and leaves cache_size as the first call left it.
C4_CacheIdempotent ==
    [][\A q \in QueryInputs :
          (/\ ret.op = "match"
           /\ ret.arg[1] = q
           /\ ret'.op = "match"
           /\ match_template(q, DefaultMaxMatches))
          => /\ ret'.val = ret.val
             /\ CacheSize' = CacheSize]_vars

\* C4's case: a call was served from the cache with the answer of a template
C4_Witness ==
    /\ ret.op = "match"
    /\ ret.hit
    /\ ret.val # None
    /\ CacheSize > 0
    /\ \E i \in DOMAIN templates : templates[i].answer = ret.val

\* C5, as claimed: right after reload_templates, and right after an add_template that
\* returned True, the cache is empty.
C5_CacheCleared ==
    (ret.op = "reload" \/ (ret.op = "add" /\ ret.val = True))
        => question_cache = EmptyDict

\* q case-folded, with its single trailing '?', '.' or '!' removed
PunctuationStripped(q) ==
    LET base == Strip(Lower(q))
    IN IF \E k \in DOMAIN suffixes : EndsWith(base, suffixes[k])
       THEN Strip(SubSeq(base, 1, Len(base) - 1))
       ELSE base

\* C6, as claimed: once add_template(q, a, category, p) has returned True with
\* non-empty q and a, and no other template is a candidate for the query,
\* match_template of q case-folded and punctuation-stripped (a non-empty query)
\* returns a.
C6_AddedThenMatched ==
    [][\A query \in QueryInputs :
          (/\ ret.op = "add"
           /\ ret.val = True
           /\ Strip(ret.arg[1]) # <<>>
           /\ Strip(ret.arg[2]) # <<>>
           /\ query = PunctuationStripped(ret.arg[1])
           /\ query # <<>>
           /\ \A m \in Range(MergedCandidates(templates, query, DefaultMaxMatches)) :
                 m.template = templates[Len(templates)]
           /\ ret'.op = "match"
           /\ match_template(query, DefaultMaxMatches))
          => ret'.val = ret.arg[2]]_vars

\* The fields after one writer call made alone on the fields st
ApplyCall(st, call) ==
    IF call.op = "reload"
    THEN LET r == Reloaded(folder, None)
         IN [templates |-> r.templates, categories |-> r.categories,
             template_index |-> r.template_index]
    ELSE LET r == add_result(st, call.arg[1], call.arg[2], call.arg[3], call.arg[4])
         IN [templates |-> r.templates, categories |-> r.categories,
             template_index |-> r.template_index]

\* The fields after the calls made one after the other, in the order given
RECURSIVE Serial(_, _, _)
Serial(st, calls, order) ==
    IF order = <<>> THEN st
    ELSE Serial(ApplyCall(st, calls[Head(order)]), calls, Tail(order))

Orders(n) == {p \in [1..n -> 1..n] : \A i, j \in 1..n : p[i] = p[j] => i = j}

DistinctIds(ts) == \A i, j \in DOMAIN ts : ts[i].id = ts[j].id => i = j

\* C7, as claimed: a match_template that runs while reload_templates is in progress
\* (and no other writer is) computes its answer against the complete collection of
\* before the reload or the complete collection of after it.
C7_ReloadAtomic ==
    seen.during => seen.observed \in {seen.old, seen.new}

\* C8, as claimed: once overlapping add_template and reload_templates calls have all
\* returned, the template list, the category set and the search index are those that
\* some sequential order of the same calls produces, and the ids of the collection
\* are distinct (as they were before the calls).
C8_WritersSerialisable ==
    (WritersIdle /\ round.calls # <<>>) =>
        /\ \E p \in Orders(Len(round.calls)) : Fields = Serial(round.base, round.calls, p)
        /\ DistinctIds(round.base.templates) => DistinctIds(templates)

\* C9, as claimed: an add_template that returns False leaves the template list, the
\* category set, the search index and the cache as they were.
C9_FailedAddChangesNothing ==
    [][\A i \in AddInputs :
          (ret'.op = "add" /\ add_template(i[1], i[2], i[3], i[4]) /\ ret'.val = False)
          => UNCHANGED <<templates, categories, template_index, question_cache>>]_vars

\* C10, as claimed: every template of the collection has a non-empty question and a
\* non-empty answer after trimming, and match_template never returns an empty answer.
C10_NonEmptyFields ==
    /\ \A i \in DOMAIN templates :
          Strip(templates[i].question) # <<>> /\ Strip(templates[i].answer) # <<>>
    /\ ret.op = "match" => ret.val # <<>>

\* A cell that holds text other than white space
NonBlank(cell) == cell # NaN /\ Strip(cell) # <<>>

\* The files of the folder that parse and have the required columns
ParseableFiles ==
    SelectSeq(folder.csv_files,
              LAMBDA file : file.parses /\ {"question", "answer"} \subseteq file.columns)

\* The rows of a file whose question and answer are both non-blank
ValidRows(file) ==
    SelectSeq(file.rows, LAMBDA row : NonBlank(row.question) /\ NonBlank(row.answer))

RECURSIVE SumLen(_)
SumLen(seqs) == IF seqs = <<>> THEN 0 ELSE Len(Head(seqs)) + SumLen(Tail(seqs))

ValidRowCount == SumLen([k \in DOMAIN ParseableFiles |-> ValidRows(ParseableFiles[k])])

\* The priority a row asks for: its priority value, 1 when it supplies none
RowPriority(file, row) ==
    IF "priority" \in file.columns /\ ~row.priority.nan THEN row.priority.val ELSE 1

\* C11, as claimed: right after reload_templates the number of templates is the
\* number of rows, over the parseable files, whose question and answer are both
\* non-blank, and each of these rows is stored, with priority 1 when it supplies no
\* priority value.
C11_ValidRowsLoaded ==
    ret.op = "reload" =>
        /\ Len(templates) = ValidRowCount
        /\ \A k \in DOMAIN ParseableFiles :
              \A r \in DOMAIN ValidRows(ParseableFiles[k]) :
                 LET file == ParseableFiles[k]
                     row == ValidRows(file)[r]
                 IN \E i \in DOMAIN templates :
                       /\ templates[i].question = Strip(row.question)
                       /\ templates[i].answer = Strip(row.answer)
                       /\ templates[i].source_file = file.name
                       /\ templates[i].priority = RowPriority(file, row)

NoSourceFiles == ~folder.exists \/ folder.csv_files = <<>>

\* C12: reload_templates with no source file (no folder, or a folder without CSV
\* files) leaves no template, an empty index, an empty category set and an empty
\* cache, whatever they held; and while there is no template every match_template
\* returns None.
C12_ReloadWithoutFiles ==
    [][/\ (NoSourceFiles /\ ret'.op = "reload" /\ reload_templates) =>
             /\ templates' = <<>>
             /\ template_index' = EmptyDict
             /\ categories' = {}
             /\ question_cache' = EmptyDict
       /\ \A q \in QueryInputs :
             (templates = <<>> /\ ret'.op = "match" /\ match_template(q, DefaultMaxMatches))
                 => ret'.val = None
      ]_vars

\* C12's case: a reload without source files has discarded templates and cache
\* entries, and nothing is left
C12_Witness ==
    /\ ret.op = "reload"
    /\ NoSourceFiles
    /\ ret.arg[4] # <<>>
    /\ ret.arg[2] > 0
    /\ templates = <<>>
    /\ question_cache = EmptyDict

\* The office scenario: the collection is that of kantor.csv and the last call is an
\* uncached match_template('lokasi kantor dimana')
KantorTemplates == Reloaded(Folder(<<File_kantor>>), None).templates

ScenarioCase ==
    /\ UncachedMatch
    /\ templates = KantorTemplates
    /\ LastQuery = Str_lokasi_kantor_dimana

LokasiCandidates == {i \in DOMAIN LastMerged : LastMerged[i].template.question = Str_DimanaLokasiKantor}
LokasiKeywordScore == keyword_score(WordSet(Lower(LastQuery)), KantorTemplates[2])

\* C13, as claimed: with ('Jam berapa buka?', priority 2) and ('Dimana lokasi kantor?',
\* priority 1) and threshold 75, the query 'lokasi kantor dimana' is surfaced for the
\* second template by the keyword-overlap strategy and match_template returns
\* 'Jl. Merdeka No.1'.
C13_Original ==
    ScenarioCase =>
        /\ \E i \in LokasiCandidates : LastMerged[i].method = "keyword"
        /\ ret.val = Str_JlMerdekaNo1

\* C13, amended: the keyword-overlap score of the query for the second template is 50
\* ('kantor' and 'kantor?' are different words), below 0.7 * 75 = 52.5, so the keyword
\* strategy does not surface it; the fuzzy strategy does, with a partial ratio of at
\* least 75, and match_template returns 'Jl. Merdeka No.1'.
C13_SurfacedByFuzzy ==
    ScenarioCase =>
        /\ ScoreEq(LokasiKeywordScore, Score(50, 1))
        /\ ScoreLt(LokasiKeywordScore, Score(similarity_threshold * 7, 10))
        /\ LokasiCandidates # {}
        /\ \A i \in LokasiCandidates :
              /\ LastMerged[i].method = "fuzzy"
              /\ ScoreGe(LastMerged[i].score, Score(similarity_threshold, 1))
        /\ ret.val = Str_JlMerdekaNo1

\* C13's case: the scenario's query answered from the scenario's collection
C13_Witness == ScenarioCase /\ ret.val = Str_JlMerdekaNo1 /\ Len(LastRanked) = 1

\* A handler accepted an utterance: it was appended to the transcripts (app.py lines
\* 207 and 280), which happens for the non-empty utterances only
UtteranceHandled == app'.history.transcripts # app.history.transcripts

ResponsesSent(sent) == {sent[i].text : i \in {j \in DOMAIN sent : sent[j].type = "response"}}

\* C14: for every non-empty utterance handled by process_text_message or
\* process_audio_message, the response sent is the template answer when match_template
\* returns an answer; the RAG processor is invoked only when match_template returned no
\* match or there is no template matcher, and then with the utterance; the apology
\* text is the response only when there is no template answer and no RAG processor
\* that is ready.
C14_Routing ==
    [][UtteranceHandled =>
          LET u == app'.last.utterance
              tr == app'.last.template_response
              sent == ResponsesSent(app'.sent)
          IN /\ Cardinality(sent) = 1
             /\ IF app.processors.template
                THEN ret'.op = "match" /\ ret'.arg[1] = u /\ tr = ret'.val
                ELSE tr = None /\ ret' = ret
             /\ tr # None => sent = {tr} /\ app'.rag_queries = <<>>
             /\ app'.rag_queries # <<>> =>
                    tr = None /\ app'.rag_queries = <<u>> /\ app.processors.rag # "none"
             /\ Apology \in sent => tr = None /\ app.processors.rag # "ready"
             /\ (tr = None /\ app.processors.rag = "none") => sent = {Apology}
             /\ app'.history.responses[Len(app'.history.responses)] \in sent]_vars

\* C14's case: one utterance was answered from a template and the next by the RAG
\* processor
C14_Witness ==
    /\ app.processors.template
    /\ app.processors.rag = "ready"
    /\ app.history.transcripts = <<Str_Why, Str_x>>
    /\ app.history.responses = <<Str_y, Str_generated>>
    /\ app.rag_queries = <<Str_x>>

\* C15: template ids are never reused within a process lifetime: the template that
\* add_template stores right after a reload shares its id with no different template
\* of the generation that the reload discarded.
C15_IdsNeverReused ==
    [][(ret.op = "reload" /\ ret'.op = "add" /\ Len(templates') > Len(templates)) =>
          \A i \in DOMAIN ret.arg[4] :
              LET new == templates'[Len(templates')]
              IN ret.arg[4][i].id = new.id => ret.arg[4][i] = new]_vars

\* C16: reload_templates is idempotent: with unchanged source files, a reload_templates
\* that follows a reload_templates leaves the template list, the category set, the
\* search index and the (empty) cache as the first one left them, whatever was added
\* before the first.
C16_ReloadIdempotent ==
    [][(ret.op = "reload" /\ ret'.op = "reload" /\ reload_templates) =>
          /\ UNCHANGED <<templates, categories, template_index, folder>>
          /\ question_cache = EmptyDict /\ question_cache' = EmptyDict]_vars

\* C16's case: a second reload_templates in a row has run on a folder with templates
C16_Witness ==
    /\ ret.op = "reload"
    /\ ret.arg[1] = <<"reload">>
    /\ ret.arg[4] = templates
    /\ templates # <<>>

\* C17: get_status is read-only: it leaves the template list, the category set, the
\* search index, the cache and the last-reload timestamp unchanged, and it reports
\* templates_loaded = the number of templates, cache_size = the number of cache entries
\* and has_templates = (templates_loaded > 0).
C17_StatusReadOnly ==
    [][(ret'.op = "status" /\ get_status) =>
          /\ UNCHANGED <<templates, categories, template_index, question_cache, last_reload>>
          /\ ret'.val.templates_loaded = Len(templates)
          /\ ret'.val.cache_size = Cardinality(DOMAIN question_cache)
          /\ ret'.val.has_templates = (ret'.val.templates_loaded > 0)]_vars

\* C17's case: get_status has reported on a matcher with templates and cache entries
C17_Witness ==
    /\ ret.op = "status"
    /\ ret.val.templates_loaded = 2
    /\ ret.val.cache_size > 0
    /\ ret.val.has_templates
    /\ categories = {}

\* The files of the folder that fail to parse or miss a required column
FailingFiles == {k \in DOMAIN folder.csv_files : folder.csv_files[k] \notin Range(ParseableFiles)}

\* C18: a source file that fails to parse (undecodable, unreadable, or missing a
\* required column) contributes no template and does not stop the reload: the
\* templates are those of the other files, loaded in the listing's order, none has a
\* failing file as its source, and the search index is built from them.
C18_FailingFileSkipped ==
    (ret.op = "reload" /\ FailingFiles # {}) =>
        LET others == LoadFiles([templates |-> <<>>, categories |-> {}], ParseableFiles)
        IN /\ templates = others.templates
           /\ categories = others.categories
           /\ \A i \in DOMAIN templates, k \in FailingFiles :
                  templates[i].source_file # folder.csv_files[k].name
           /\ template_index = build_search_index(others.templates)
           /\ (templates # <<>> => template_index # EmptyDict)

\* C18's case: a reload of a folder whose first and third files fail has loaded the
\* second and the fourth
C18_Witness ==
    /\ ret.op = "reload"
    /\ FailingFiles = {1, 3}
    /\ Len(templates) = 3
    /\ templates[1].source_file = File_faq.name
    /\ templates[3].source_file = File_kantor.name

\* The candidates of the last query after the exact and the fuzzy strategy
LastAfterFuzzy ==
    FuzzyMatches(templates, ExactMatches(templates, Lower(LastQuery)),
                 extract(LastQuery, [i \in DOMAIN templates |-> templates[i].question],
                         ret.arg[4] * 2))

\* C19: merge rule: when a template has a candidate from an earlier strategy and the
\* keyword strategy produces a strictly higher score for it, the keyword entry
\* replaces the earlier one; when the keyword score is lower or equal, the earlier
\* entry is kept.
C19_MergeRule ==
    UncachedMatch =>
        \A i \in DOMAIN LastAfterFuzzy :
            LET earlier == LastAfterFuzzy[i]
                ks == keyword_score(WordSet(Lower(LastQuery)), earlier.template)
                final == {m \in Range(LastMerged) : m.template.id = earlier.template.id}
            IN ScoreGe(ks, Score(similarity_threshold * 7, 10)) =>
                   IF ScoreLt(earlier.score, ks)
                   THEN \A m \in final : m.method = "keyword" /\ ScoreEq(m.score, ks)
                   ELSE final = {earlier}

\* C20: the cache holds only answers computed against the current generation: whenever
\* no call is in progress, each cached value is the answer of some template of the
\* current collection, so a match_template that began before a reload_templates and
\* ends after it leaves no entry of the discarded collection.
C20_CacheOfCurrentGeneration ==
    (WritersIdle /\ mpc.pc = "idle") =>
        \A k \in DOMAIN question_cache :
            \E i \in DOMAIN templates : templates[i].answer = question_cache[k]

\* The keys a full rebuild files a template under: its variations and the case-folded
\* whitespace-delimited keywords of its question longer than 2 characters
IndexKeys(t) == t.variations \cup {w \in WordSet(Lower(t.question)) : Len(w) > 2}

Indexed(t) ==
    \A k \in IndexKeys(t) :
        k \in DOMAIN template_index /\ t.id \in Range(template_index[k])

\* C21: the search index is derived from the collection: after a reload_templates,
\* and after an add_template that returned True, every template is in the bucket of
\* each of its variations and of each keyword of its question longer than 2
\* characters, and the index is what a rebuild from the collection yields.
C21_IndexDerived ==
    (ret.op = "reload" \/ (ret.op = "add" /\ ret.val = True)) =>
        /\ \A i \in DOMAIN templates : Indexed(templates[i])
        /\ template_index = build_search_index(templates)

\* The last call reached _find_best_matches: a search_templates with a string, or a
\* match_template that missed the cache; its query, and the candidates it got back
FoundCase == (ret.op = "search" /\ IsStr(ret.arg[1])) \/ UncachedMatch
FoundQuery == IF ret.op = "search" THEN ret.arg[1] ELSE LastQuery
LastFound == find_best_matches(templates, FoundQuery, ret.arg[4])

KeywordThreshold == Score(similarity_threshold * 7, 10)

\* The templates whose question scores strictly higher than s under partial_ratio
ScoringAbove(s) == {j \in DOMAIN templates : ScoreLt(s, scorer(FoundQuery, templates[j].question))}

ClearsThreshold(m) ==
    /\ m.method \in {"exact", "fuzzy", "keyword"}
    /\ m.method = "exact" => ScoreEq(m.score, Hundred)
    /\ m.method = "fuzzy" =>
          /\ ScoreGe(m.score, Score(similarity_threshold, 1))
          /\ ScoreEq(m.score, scorer(FoundQuery, m.template.question))
          /\ Cardinality(ScoringAbove(m.score)) < 2 * ret.arg[4]
    /\ m.method = "keyword" => ScoreGe(m.score, KeywordThreshold)

\* C22: every candidate returned by _find_best_matches clears the threshold of its
\* strategy: a fuzzy candidate has a score of at least similarity_threshold and fewer
\* than 2 x max_matches questions score higher, a keyword candidate has a score of at
\* least 0.7 x similarity_threshold, an exact candidate has score 100; so the answer
\* of an uncached match_template has a score of at least 0.7 x similarity_threshold.
C22_CandidatesClearThreshold ==
    FoundCase =>
        /\ \A i \in DOMAIN LastFound : ClearsThreshold(LastFound[i])
        /\ (ret.op = "match" /\ ret.val # None) =>
              /\ LastFound # <<>>
              /\ ret.val = LastFound[1].template.answer
              /\ ScoreGe(LastFound[1].score, KeywordThreshold)
        /\ ret.op = "search" => ret.val = SearchResult(LastFound)

\* C22's case: a search of three templates with max_matches = 1 returned a keyword
\* candidate
C22_Witness ==
    /\ ret.op = "search"
    /\ Len(templates) = 3
    /\ ret.arg[4] = 1
    /\ Len(ret.val) = 1
    /\ ret.val[1].method = "keyword"

\* What the variations V of a question are said to be
VariationsAsClaimed(question, V) ==
    LET base == Strip(Lower(question))
        ends == base # <<>> /\ base[Len(base)] \in {"?", ".", "!"}
        cut == Strip(SubSeq(base, 1, Len(base) - 1))
        Starts(p) == Len(p) <= Len(base) /\ SubSeq(base, 1, Len(p)) = p
        Stripped(p) == Strip(SubSeq(base, Len(p) + 1, Len(base)))
        Prepended(p) == p \o <<" ">> \o base
        Variant(p) == IF Starts(p) THEN Stripped(p) ELSE Prepended(p)
    IN /\ Len(prefixes) = 12
       /\ base \in V
       /\ ends => cut \in V
       /\ \A k \in DOMAIN prefixes :
             /\ Variant(prefixes[k]) \in V
             /\ Starts(prefixes[k]) => Prepended(prefixes[k]) \notin V
       /\ \A v \in V :
             \/ v = base
             \/ ends /\ v = cut
             \/ \E k \in DOMAIN prefixes : v = Variant(prefixes[k])

\* C23: the variations of every stored template are the case-folded trimmed question,
\* the question with one trailing '?', '.' or '!' removed when it ends with one, and
\* for each of the 12 prefixes exactly one variant: the prefix-stripped form when the
\* base starts with the prefix, otherwise the prefix and a space prepended, never
\* both, and nothing else.
C23_Variations ==
    \A i \in DOMAIN templates :
        VariationsAsClaimed(templates[i].question, templates[i].variations)

\* C23's case: a stored question that ends with '?' and starts with the prefix 'why',
\* and a blank one
C23_Witness ==
    /\ Len(templates) = 2
    /\ templates[1].question = Str_WhyB
    /\ {Str_why_b, <<"b", "?">>, <<"h", "o", "w", " ", "w", "h", "y", " ", "b", "?">>}
           \subseteq templates[1].variations
    /\ templates[2].question = <<>>
    /\ <<"w", "h", "y", " ">> \in templates[2].variations

\* C24: the list that _find_best_matches returns, and search_templates with it, holds
\* at most one candidate per template id and at most max_matches entries, also when
\* two templates have the same question text.
C24_OnePerTemplate ==
    FoundCase =>
        /\ \A i, j \in DOMAIN LastFound :
              LastFound[i].template.id = LastFound[j].template.id => i = j
        /\ Len(LastFound) <= ret.arg[4]
        /\ ret.op = "search" => Len(ret.val) = Len(LastFound)

\* C24's case: two templates with the same question were both candidates of a search
\* with max_matches = 1, which returned one of them
C24_Witness ==
    /\ ret.op = "search"
    /\ ret.arg[4] = 1
    /\ Len(templates) = 2
    /\ templates[1].question = templates[2].question
    /\ Len(MergedCandidates(templates, ret.arg[1], ret.arg[4])) = 2
    /\ Len(ret.val) = 1

IdsArePositions == \A i \in DOMAIN templates : templates[i].id = i - 1

\* C25: within a generation the collection is append-only and id equals position: in
\* every state reached by sequential reload_templates and add_template calls the
\* template at index i has id i (so ids are pairwise distinct), and add_template
\* leaves the templates already stored as they were, in their places.
C25_AppendOnly ==
    /\ []IdsArePositions
    /\ [][ret'.op = "add" =>
             /\ Len(templates') \in {Len(templates), Len(templates) + 1}
             /\ SubSeq(templates', 1, Len(templates)) = templates]_vars

\* C25's case: a template was added to a collection loaded from a file
C25_Witness ==
    /\ ret.op = "add"
    /\ Len(templates) = 2
    /\ templates[1].source_file = File_info.name
    /\ templates[2].source_file = Str_runtime
    /\ templates[2].id = 1

\* C26: match_template changes nothing but the cache, and only on success: a call
\* that misses the cache and returns an answer adds exactly the entry (lower-cased
\* trimmed query -> returned answer); a call that returns no match, and a call served
\* from the cache, leave the cache as it was; the template list, the category set and
\* the index are unchanged in all cases.
C26_MatchWritesCacheOnly ==
    [][\A q \in QueryInputs :
          (ret'.op = "match" /\ ret'.arg[1] = q /\ match_template(q, DefaultMaxMatches)) =>
              /\ UNCHANGED <<templates, categories, template_index, last_reload>>
              /\ IF ret'.val # None /\ IsStr(q) /\ Lower(Strip(q)) \notin DOMAIN question_cache
                 THEN question_cache' = (Lower(Strip(q)) :> ret'.val) @@ question_cache
                 ELSE question_cache' = question_cache]_vars

\* C26's case: a query in capitals missed a cache that held another entry, and was
\* answered
C26_Witness ==
    /\ ret.op = "match"
    /\ ~ret.hit
    /\ ret.arg[1] = Str_Why
    /\ ret.val # None
    /\ DOMAIN question_cache = {Str_why, Str_why_b}
    /\ question_cache[Str_why] = ret.val

\* the labels carried by the templates of the collection
TemplateLabels == {templates[i].category : i \in DOMAIN templates}

\* C27: in every state reached by sequential reload_templates and add_template
\* calls, the category set equals the set of category labels of the templates in
\* the collection.
C27_CategoriesMatchTemplates == categories = TemplateLabels

\* the same, over the templates whose label can be a member of a set
C27_HashableLabelsOnly ==
    categories = {c \in TemplateLabels : c # Unhashable}

\* the category C28 gives the template of a row: the row's own when the row supplies
\* one, the file's default when the column is absent or the cell is empty
ClaimedCategory(file, row) ==
    IF "category" \in file.columns /\ row.category # NaN /\ Strip(row.category) # <<>>
    THEN Strip(row.category)
    ELSE DefaultCategory(file.name)

\* the template t was loaded from a row of the file, with the category C28 gives it
LoadedAsClaimed(t, file) ==
    /\ file.name = t.source_file
    /\ \E i \in DOMAIN file.rows :
          /\ Strip(StrOf(file.rows[i].question)) = t.question
          /\ Strip(StrOf(file.rows[i].answer)) = t.answer
          /\ ClaimedCategory(file, file.rows[i]) = t.category

\* C28, as claimed: a template loaded from a source file has the category of its row
\* when the row supplies one, and otherwise (category column absent, or category cell
\* blank) the title-cased base name of the file with underscores replaced by spaces.
C28_CategoryDefault ==
    \A i \in DOMAIN templates :
        \E j \in DOMAIN folder.csv_files : LoadedAsClaimed(templates[i], folder.csv_files[j])

\* the part of C28 that holds: the templates of a file without a category column
\* carry the file's default category
C28_DefaultWhenColumnAbsent ==
    \A i \in DOMAIN templates :
        \A j \in DOMAIN folder.csv_files :
            (/\ folder.csv_files[j].name = templates[i].source_file
             /\ "category" \notin folder.csv_files[j].columns)
                => templates[i].category = DefaultCategory(templates[i].source_file)

\* The templates with a variation equal to the case-folded last query
ExactSet == {i \in DOMAIN templates : Lower(LastQuery) \in templates[i].variations}

\* the highest priority among them, and the first template that has it
ExactTopPriority ==
    CHOOSE p \in {templates[i].priority : i \in ExactSet} :
        \A i \in ExactSet : templates[i].priority <= p
ExactWinner ==
    CHOOSE i \in ExactSet :
        /\ templates[i].priority = ExactTopPriority
        /\ \A j \in ExactSet : templates[j].priority = ExactTopPriority => i <= j

\* the place of template t's exact candidate in the ranked list, 0 when it has none
ExactPlace(ranked, t) ==
    IF \E k \in DOMAIN ranked : IsExactOf(ranked[k], t)
    THEN CHOOSE k \in DOMAIN ranked : IsExactOf(ranked[k], t)
    ELSE 0

\* C29: when several templates have a variation equal to the case-folded query and
\* no candidate has a priority above theirs, an uncached match_template returns the
\* answer of the exact-matching template of highest priority with the smallest id;
\* every one of these templates keeps its exact candidate (score 100) through the
\* fuzzy and keyword strategies, and the exact candidates are ranked by priority,
\* then by id.
C29_ExactTieBreak ==
    (UncachedMatch /\ ExactSet # {}) =>
        LET ranked == LastRanked
            top == ExactTopPriority
            winner == ExactWinner
            place == [i \in ExactSet |-> ExactPlace(ranked, templates[i])]
        IN (\A k \in DOMAIN ranked : ranked[k].template.priority <= top)
           => /\ ret.val = templates[winner].answer
              /\ place[winner] = 1
              /\ \A i \in ExactSet : place[i] > 0
              /\ \A i, j \in ExactSet :
                    (\/ templates[i].priority > templates[j].priority
                     \/ /\ templates[i].priority = templates[j].priority
                        /\ i < j)
                       => place[i] < place[j]

\* C29's case: two templates of the same priority have a variation equal to the
\* case-folded query, and the answer of the first one was returned, not the other's
C29_Witness ==
    /\ UncachedMatch
    /\ Cardinality(ExactSet) = 2
    /\ \A i \in ExactSet : templates[i].priority = ExactTopPriority
    /\ \A i \in ExactSet : templates[i].answer = ret.val <=> i = ExactWinner
    /\ ret.val = templates[ExactWinner].answer

\* C30: for any interleaving of the per-message tasks of a client, responses[i] is the
\* response to transcripts[i]: every response recorded in the conversation history
\* stands at the position of the utterance it was computed for.
C30_ResponsesPaired ==
    \A i \in DOMAIN app.history.responses :
        /\ i \in DOMAIN app.history.transcripts
        /\ app.answered[i] = app.history.transcripts[i]

====
